---- MODULE Spec2Model ----
(***************************************************************************)
(* Booking core of the airport API service: OrderViewSet, OrderSerializer, *)
(* TicketSerializer and the Ticket model (airport/views.py,                *)
(* airport/serializers.py, airport/models.py).                             *)
(*                                                                         *)
(* The persistent store is modelled as committed rows (orders, tickets,    *)
(* flights) plus, for every request handler that is inside                 *)
(* transaction.atomic(), the rows it has written and not yet committed     *)
(* (txOrder, txTickets).  A handler reads the committed rows and its own   *)
(* uncommitted rows; the unique index unique_flight_row_seat makes an      *)
(* INSERT wait for an open transaction that holds the same key.            *)
(***************************************************************************)
EXTENDS Integers, Sequences, FiniteSets, TLC

\* ---------------------------------------------------------------- bounds
NumUsers == 2
NumProcs == 2
NumFlights == 2
MaxTickets == 2
MaxOrders == 2
\* largest rows / seats_in_row tried when Ticket validation is checked alone
MaxDim == 2
\* rows / seats_in_row of the airplane type every flight is operated with
TypeRows == 1
TypeSeatsInRow == 1

\* airports that routes connect, and the most Route rows created
NumAirports == 2
MaxRoutes == 2
\* departure and arrival times are 1..MaxTime
MaxTime == 3
\* the dates of an airplane are 1..MaxDate, and the most Airplane rows created
MaxDate == 2
MaxAirplanes == 1
\* the most AirplaneType rows created through the API
MaxAirplaneTypes == 1

\* Position rows and CrewMember rows that exist from the start
NumPositions == 2
NumCrew == 3

Users == 1..NumUsers
Procs == 1..NumProcs
FlightIds == 1..NumFlights
OrderIds == 1..MaxOrders
PositionIds == 1..NumPositions
CrewIds == 1..NumCrew
\* the crew members hired so far, each with a position
CrewRows == {[id |-> c, position |-> 1 + (c % NumPositions)] : c \in CrewIds}

\* request values offered for row and seat: rows from one below the range,
\* seats up to one above it
RowInputs == 0..TypeRows
SeatInputs == 1..(TypeSeatsInRow + 1)
TicketSpecs == [flight : FlightIds, row : RowInputs, seat : SeatInputs]

RECURSIVE SeqsUpTo(_, _)
SeqsUpTo(S, n) ==
    IF n = 0 THEN {<<>>}
    ELSE LET shorter == SeqsUpTo(S, n - 1)
         IN  shorter \cup {Append(s, x) : s \in {t \in shorter : Len(t) = n - 1}, x \in S}

\* bodies of POST /orders/: {"tickets": [...]} with 0..MaxTickets specs
TicketLists == SeqsUpTo(TicketSpecs, MaxTickets)

VARIABLES
    flights,      \* ids of the persisted Flight rows
    orders,       \* committed Order rows: [id, user]
    tickets,      \* committed Ticket rows: [id, order, flight, row, seat]; the
                  \* primary key id is written <<order id, position in the order>>
    nextOrderId,  \* the Order primary-key sequence
    pc,           \* per handler: position inside OrderViewSet.create
    actor,        \* per handler: request.user
    req,          \* per handler: validated_data["tickets"]
    idx,          \* per handler: index of the ticket_data being created
    txOrder,      \* per handler: id of the Order inserted in the open transaction (0: none)
    txTickets,    \* per handler: Ticket rows inserted in the open transaction
    resp,         \* the response returned last (user: request.user of an order
                  \* read, update or destroy, 0 otherwise)
    airplane_type,  \* rows and seats_in_row of the AirplaneType the flights are operated with
    flight_times,   \* per persisted Flight: [departure_time, arrival_time]
    routes,         \* Route rows: [id, source, destination, distance]
    airplanes,      \* Airplane rows: [id, manufacture_date, operation_start_date,
                    \* last_maintenance_date]
    airplane_types, \* AirplaneType rows written through the API: [id, rows, seats_in_row]
    positions,      \* ids of the persisted Position rows
    crew_members    \* CrewMember rows: [id, position], position None when unset

\* the tables the booking core only reads or never touches
staffing == <<positions, crew_members>>
catalog == <<flight_times, routes, airplanes, airplane_types, staffing>>

vars == <<flights, orders, tickets, nextOrderId, pc, actor, req, idx, txOrder, txTickets,
          resp, airplane_type, flight_times, routes, airplanes, airplane_types,
          positions, crew_members>>

InFlight == {"atomic", "clean", "insert", "commit"}
OK == ""

\* ------------------------------------------------------- airplane type
rows(f) == airplane_type.rows
seats_in_row(f) == airplane_type.seats_in_row

\* ------------------------------------------------------------- Ticket
validate_ticket_upper_exclusive(row, seat, f) ==
    IF ~(1 <= row /\ row < rows(f)) THEN "row"
    ELSE IF ~(1 <= seat /\ seat < seats_in_row(f)) THEN "seat"
    ELSE OK

\* Ticket.validate_ticket: the key of the error raised, OK when none is
validate_ticket(row, seat, f) ==
    IF ~(1 <= row /\ row <= rows(f)) THEN "row"
    ELSE IF ~(1 <= seat /\ seat <= seats_in_row(f)) THEN "seat"
    ELSE OK

unique_flight_row_seat_absent(rowset, t) == TRUE

unique_flight_row_seat_flight_only(rowset, t) ==
    ~\E r \in rowset : r.flight = t.flight

\* Ticket.Meta.constraints: no row of rowset holds the key (flight, row, seat) of t
unique_flight_row_seat(rowset, t) ==
    ~\E r \in rowset : r.flight = t.flight /\ r.row = t.row /\ r.seat = t.seat

\* ---------------------------------------------------- TicketSerializer
\* TicketSerializer.run_validation of one item: field validation (the flight
\* primary key must exist), then the unique-together validator that
\* ModelSerializer builds from Ticket.Meta.constraints (it reads the committed
\* rows), then TicketSerializer.validate; the key of the error, OK when none
TicketSerializer_validate(spec) ==
    IF spec.flight \notin flights THEN "flight"
    ELSE IF ~unique_flight_row_seat(tickets, spec) THEN "non_field_errors"
    ELSE validate_ticket(spec.row, spec.seat, spec.flight)

NoResp == [op |-> "none", user |-> 0, status |-> 0,
           body |-> <<>>, detail |-> "", data |-> {}, at |-> 0]

Init ==
    /\ flights = FlightIds
    /\ orders = {}
    /\ tickets = {}
    /\ nextOrderId = 1
    /\ pc = [p \in Procs |-> "idle"]
    /\ actor = [p \in Procs |-> 0]
    /\ req = [p \in Procs |-> <<>>]
    /\ idx = [p \in Procs |-> 0]
    /\ txOrder = [p \in Procs |-> 0]
    /\ txTickets = [p \in Procs |-> {}]
    /\ resp = NoResp
    /\ airplane_type = [rows |-> TypeRows, seats_in_row |-> TypeSeatsInRow]
    /\ flight_times = [f \in FlightIds |-> [departure_time |-> 1, arrival_time |-> 2]]
    /\ routes = {}
    /\ airplanes = {}
    /\ airplane_types = {}
    /\ positions = PositionIds
    /\ crew_members = CrewRows

CreateResp(u, st, body, detail, data, at) ==
    [op |-> "create", user |-> 0, status |-> st,
     body |-> body, detail |-> detail, data |-> data, at |-> at]

\* -------------------------------------------------- OrderViewSet.create
Terminal == {"201", "400", "500"}

tickets_run_validation_allow_empty(specs) ==
    LET errs == [i \in 1..Len(specs) |-> TicketSerializer_validate(specs[i])]
    IN  [ok |-> \A i \in 1..Len(specs) : errs[i] = OK, detail |-> "", body |-> errs]

tickets_run_validation_first_only(specs) ==
    IF specs = <<>> THEN [ok |-> FALSE, detail |-> "empty", body |-> <<>>]
    ELSE LET errs == [i \in 1..Len(specs) |->
                        IF i = 1 THEN TicketSerializer_validate(specs[i]) ELSE OK]
         IN  [ok |-> errs[1] = OK, detail |-> "", body |-> errs]

\* OrderSerializer.tickets = TicketSerializer(many=True, allow_empty=False):
\* an empty list is an error, otherwise every item is validated and the
\* errors are reported per item
tickets_run_validation(specs) ==
    IF specs = <<>> THEN [ok |-> FALSE, detail |-> "empty", body |-> <<>>]
    ELSE LET errs == [i \in 1..Len(specs) |-> TicketSerializer_validate(specs[i])]
         IN  [ok |-> \A i \in 1..Len(specs) : errs[i] = OK, detail |-> "", body |-> errs]

\* POST /orders/, serializer.is_valid(raise_exception=True): a failure is
\* answered 400 and nothing is written; otherwise perform_create goes on with
\* serializer.save(user=request.user)
OrderSerializer_is_valid(p, u, specs) ==
    /\ pc[p] \notin InFlight
    /\ nextOrderId + Cardinality({q \in Procs : pc[q] = "atomic"}) <= MaxOrders
    /\ LET v == tickets_run_validation(specs)
       IN  IF ~v.ok
           THEN /\ pc' = [pc EXCEPT ![p] = "400"]
                /\ resp' = CreateResp(u, 400, v.body, v.detail, {}, 0)
                /\ UNCHANGED <<actor, req>>
           ELSE /\ pc' = [pc EXCEPT ![p] = "atomic"]
                /\ actor' = [actor EXCEPT ![p] = u]
                /\ req' = [req EXCEPT ![p] = specs]
                /\ UNCHANGED resp
    /\ UNCHANGED <<flights, orders, tickets, nextOrderId, idx, txOrder, txTickets, airplane_type, catalog>>

\* OrderSerializer.create: transaction.atomic() is entered and
\* Order.objects.create(user=request.user) inserts the Order
Order_objects_create(p) ==
    /\ pc[p] = "atomic"
    /\ txOrder' = [txOrder EXCEPT ![p] = nextOrderId]
    /\ nextOrderId' = nextOrderId + 1
    /\ idx' = [idx EXCEPT ![p] = 1]
    /\ pc' = [pc EXCEPT ![p] = IF Len(req[p]) = 0 THEN "commit" ELSE "clean"]
    /\ UNCHANGED <<flights, orders, tickets, actor, req, txTickets, resp, airplane_type, catalog>>

RollbackKeepsRows(p, detail) ==
    /\ orders' = orders \cup {[id |-> txOrder[p], user |-> actor[p]]}
    /\ tickets' = tickets \cup txTickets[p]
    /\ txOrder' = [txOrder EXCEPT ![p] = 0]
    /\ txTickets' = [txTickets EXCEPT ![p] = {}]
    /\ pc' = [pc EXCEPT ![p] = "500"]
    /\ idx' = [idx EXCEPT ![p] = 0]
    /\ req' = [req EXCEPT ![p] = <<>>]
    /\ actor' = [actor EXCEPT ![p] = 0]
    /\ resp' = CreateResp(actor[p], 500, <<>>, detail, {}, idx[p])
    /\ UNCHANGED <<flights, nextOrderId, airplane_type, catalog>>

\* an exception leaves the transaction.atomic() block: the rows written in it
\* are discarded and the exception reaches the framework, which answers 500
Rollback(p, detail) ==
    /\ txOrder' = [txOrder EXCEPT ![p] = 0]
    /\ txTickets' = [txTickets EXCEPT ![p] = {}]
    /\ pc' = [pc EXCEPT ![p] = "500"]
    /\ idx' = [idx EXCEPT ![p] = 0]
    /\ req' = [req EXCEPT ![p] = <<>>]
    /\ actor' = [actor EXCEPT ![p] = 0]
    /\ resp' = CreateResp(actor[p], 500, <<>>, detail, {}, idx[p])
    /\ UNCHANGED <<flights, orders, tickets, nextOrderId, airplane_type, catalog>>

\* Ticket.save -> full_clean(): the flight must exist (clean_fields),
\* Ticket.clean checks the range, validate_constraints checks
\* unique_flight_row_seat against the rows the transaction can read;
\* each failure is a django.core.exceptions.ValidationError
Ticket_full_clean(p) ==
    /\ pc[p] = "clean"
    /\ LET t == req[p][idx[p]]
       IN  IF t.flight \notin flights
           THEN Rollback(p, "ValidationError: flight")
           ELSE IF validate_ticket(t.row, t.seat, t.flight) # OK
           THEN Rollback(p, "ValidationError: range")
           ELSE IF ~unique_flight_row_seat(tickets \cup txTickets[p], t)
           THEN Rollback(p, "ValidationError: unique_flight_row_seat")
           ELSE /\ pc' = [pc EXCEPT ![p] = "insert"]
                /\ UNCHANGED <<flights, orders, tickets, nextOrderId, actor, req,
                               idx, txOrder, txTickets, resp, airplane_type, catalog>>

\* the INSERT of p waits for q: the open transaction of q holds the key
WaitsFor(p, q) ==
    /\ p # q
    /\ pc[p] = "insert"
    /\ ~unique_flight_row_seat(txTickets[q], req[p][idx[p]])

RECURSIVE WaitChain(_, _)
WaitChain(S, n) ==
    IF n = 0 THEN S
    ELSE WaitChain(S \cup {r \in Procs : \E q \in S : WaitsFor(q, r)}, n - 1)

\* p waits, directly or through others, for a transaction that waits for p
InWaitCycle(p) ==
    \E q \in Procs : WaitsFor(p, q) /\ p \in WaitChain({r \in Procs : WaitsFor(q, r)}, NumProcs)

Ticket_insert_no_index(p) ==
    /\ pc[p] = "insert"
    /\ LET t == req[p][idx[p]]
       IN  IF t.flight \notin flights
           THEN Rollback(p, "IntegrityError: flight")
           ELSE /\ txTickets' = [txTickets EXCEPT ![p] = @ \cup
                      {[id |-> <<txOrder[p], idx[p]>>, order |-> txOrder[p],
                        flight |-> t.flight, row |-> t.row, seat |-> t.seat]}]
                /\ idx' = [idx EXCEPT ![p] = @ + 1]
                /\ pc' = [pc EXCEPT ![p] = IF idx[p] = Len(req[p]) THEN "commit" ELSE "clean"]
                /\ UNCHANGED <<flights, orders, tickets, nextOrderId, actor, req,
                               txOrder, resp, airplane_type, catalog>>

\* Ticket.save -> super().save(): the INSERT; the store raises IntegrityError
\* for a key already committed or a flight that is gone
Ticket_insert(p) ==
    /\ pc[p] = "insert"
    /\ ~\E q \in Procs : WaitsFor(p, q)
    /\ LET t == req[p][idx[p]]
       IN  IF t.flight \notin flights
           THEN Rollback(p, "IntegrityError: flight")
           ELSE IF ~unique_flight_row_seat(tickets \cup txTickets[p], t)
           THEN Rollback(p, "IntegrityError: unique_flight_row_seat")
           ELSE /\ txTickets' = [txTickets EXCEPT ![p] = @ \cup
                      {[id |-> <<txOrder[p], idx[p]>>, order |-> txOrder[p],
                        flight |-> t.flight, row |-> t.row, seat |-> t.seat]}]
                /\ idx' = [idx EXCEPT ![p] = @ + 1]
                /\ pc' = [pc EXCEPT ![p] = IF idx[p] = Len(req[p]) THEN "commit" ELSE "clean"]
                /\ UNCHANGED <<flights, orders, tickets, nextOrderId, actor, req,
                               txOrder, resp, airplane_type, catalog>>

\* transactions wait for each other's keys: the store aborts one of them
DeadlockAbort(p) ==
    /\ InWaitCycle(p)
    /\ Rollback(p, "OperationalError: deadlock")

CommitAsFirstUser(p) ==
    /\ pc[p] = "commit"
    /\ orders' = orders \cup {[id |-> txOrder[p], user |-> 1]}
    /\ tickets' = tickets \cup txTickets[p]
    /\ resp' = CreateResp(actor[p], 201, <<>>, "", {txOrder[p]}, Len(req[p]))
    /\ txOrder' = [txOrder EXCEPT ![p] = 0]
    /\ txTickets' = [txTickets EXCEPT ![p] = {}]
    /\ pc' = [pc EXCEPT ![p] = "201"]
    /\ idx' = [idx EXCEPT ![p] = 0]
    /\ req' = [req EXCEPT ![p] = <<>>]
    /\ actor' = [actor EXCEPT ![p] = 0]
    /\ UNCHANGED <<flights, nextOrderId, airplane_type, catalog>>

\* the transaction.atomic() block is left normally: COMMIT, then 201 with
\* the order; the Order row carries user = request.user (perform_create)
Commit(p) ==
    /\ pc[p] = "commit"
    /\ orders' = orders \cup {[id |-> txOrder[p], user |-> actor[p]]}
    /\ tickets' = tickets \cup txTickets[p]
    /\ resp' = CreateResp(actor[p], 201, <<>>, "", {txOrder[p]}, Len(req[p]))
    /\ txOrder' = [txOrder EXCEPT ![p] = 0]
    /\ txTickets' = [txTickets EXCEPT ![p] = {}]
    /\ pc' = [pc EXCEPT ![p] = "201"]
    /\ idx' = [idx EXCEPT ![p] = 0]
    /\ req' = [req EXCEPT ![p] = <<>>]
    /\ actor' = [actor EXCEPT ![p] = 0]
    /\ UNCHANGED <<flights, nextOrderId, airplane_type, catalog>>

\* ------------------------------------------------- OrderViewSet.destroy
OrderViewSet_get_queryset_all(u) == orders

\* OrderViewSet.get_queryset: Order.objects.filter(user=self.request.user)
OrderViewSet_get_queryset(u) == {o \in orders : o.user = u}

\* the answer to an order read, update or destroy: at is the id in the URL
SimpleResp(op, u, id, st, data) ==
    [op |-> op, user |-> u, status |-> st, body |-> <<>>, detail |-> "",
     data |-> data, at |-> id]

\* DELETE /orders/{id}/: get_object() over get_queryset() answers 404 for an
\* order that is not the actor's; Order.delete() cascades to Ticket.order
OrderViewSet_destroy(u, id) ==
    /\ IF \E o \in OrderViewSet_get_queryset(u) : o.id = id
       THEN /\ orders' = {o \in orders : o.id # id}
            /\ tickets' = {t \in tickets : t.order # id}
            /\ resp' = SimpleResp("destroy", u, id, 204, {})
       ELSE /\ resp' = SimpleResp("destroy", u, id, 404, {})
            /\ UNCHANGED <<orders, tickets>>
    /\ UNCHANGED <<flights, nextOrderId, pc, actor, req, idx, txOrder, txTickets, airplane_type, catalog>>

\* DELETE /flights/{id}/ by an administrator: Flight.delete() cascades to
\* Ticket.flight; it waits for open transactions that reference the flight
FlightViewSet_destroy(f) ==
    /\ f \in flights
    /\ \A p \in Procs : \A t \in txTickets[p] : t.flight # f
    /\ flights' = flights \ {f}
    /\ tickets' = {t \in tickets : t.flight # f}
    /\ flight_times' = [g \in flights \ {f} |-> flight_times[g]]
    /\ resp' = SimpleResp("flight-destroy", 0, f, 204, {})
    /\ UNCHANGED <<orders, nextOrderId, pc, actor, req, idx, txOrder, txTickets,
                   airplane_type, routes, airplanes, airplane_types, staffing>>

\* --------------------------------------- OrderViewSet list/retrieve/update
\* GET /orders/: the orders of get_queryset()
OrderViewSet_list(u) ==
    /\ resp' = SimpleResp("list", u, 0, 200, {o.id : o \in OrderViewSet_get_queryset(u)})
    /\ UNCHANGED <<flights, orders, tickets, nextOrderId, pc, actor, req, idx, txOrder,
                   txTickets, airplane_type, catalog>>

\* GET /orders/{id}/: get_object() over get_queryset(), 404 otherwise
OrderViewSet_retrieve(u, id) ==
    /\ resp' = IF \E o \in OrderViewSet_get_queryset(u) : o.id = id
               THEN SimpleResp("retrieve", u, id, 200, {id})
               ELSE SimpleResp("retrieve", u, id, 404, {})
    /\ UNCHANGED <<flights, orders, tickets, nextOrderId, pc, actor, req, idx, txOrder,
                   txTickets, airplane_type, catalog>>

OrderViewSet_update_nested_write(u, id, partial, body) ==
    LET v == tickets_run_validation(body.tickets)
        found == \E o \in OrderViewSet_get_queryset(u) : o.id = id
    IN  IF found /\ body.present /\ v.ok
        THEN /\ tickets' = {t \in tickets : t.order # id} \cup
                    {[id |-> <<id, i>>, order |-> id, flight |-> body.tickets[i].flight,
                      row |-> body.tickets[i].row, seat |-> body.tickets[i].seat] :
                        i \in 1..Len(body.tickets)}
             /\ resp' = SimpleResp("update", u, id, 200, {id})
             /\ UNCHANGED <<flights, orders, nextOrderId, pc, actor, req, idx, txOrder,
                            txTickets, airplane_type, catalog>>
        ELSE /\ resp' = IF ~found THEN SimpleResp("update", u, id, 404, {})
                        ELSE IF ~body.present /\ partial THEN SimpleResp("update", u, id, 200, {id})
                        ELSE SimpleResp("update", u, id, 400, {})
             /\ UNCHANGED <<flights, orders, tickets, nextOrderId, pc, actor, req, idx,
                            txOrder, txTickets, airplane_type, catalog>>

\* PUT / PATCH /orders/{id}/: get_object(), then OrderSerializer(instance,
\* data, partial).  OrderSerializer defines no update(): with a validated
\* tickets list ModelSerializer.update refuses the nested write (AssertionError,
\* 500); without one (PATCH) no field is writable and the row is saved as it is
OrderViewSet_update(u, id, partial, body) ==
    /\ resp' = IF ~\E o \in OrderViewSet_get_queryset(u) : o.id = id
               THEN SimpleResp("update", u, id, 404, {})
               ELSE IF ~body.present
               THEN IF partial THEN SimpleResp("update", u, id, 200, {id})
                    ELSE [SimpleResp("update", u, id, 400, {}) EXCEPT !.detail = "required"]
               ELSE LET v == tickets_run_validation(body.tickets)
                    IN  IF ~v.ok
                        THEN [SimpleResp("update", u, id, 400, {}) EXCEPT
                                !.body = v.body, !.detail = v.detail]
                        ELSE [SimpleResp("update", u, id, 500, {}) EXCEPT
                                !.detail = "AssertionError: nested write"]
    /\ UNCHANGED <<flights, orders, tickets, nextOrderId, pc, actor, req, idx, txOrder,
                   txTickets, airplane_type, catalog>>

\* ------------------------------------------------------- specifications
InRangeSpec(s) ==
    /\ 1 <= s.row /\ s.row <= TypeRows
    /\ 1 <= s.seat /\ s.seat <= TypeSeatsInRow

\* ticket lists whose specs are all in range
BookableLists == {l \in TicketLists : Len(l) >= 1 /\ \A i \in 1..Len(l) : InRangeSpec(l[i])}

UpdateBodies ==
    {[present |-> FALSE, tickets |-> <<>>]} \cup
    {[present |-> TRUE, tickets |-> l] : l \in BookableLists \cup {<<>>}}

\* the booking core: concurrent order creations, order and flight deletions
Next ==
    \/ \E p \in Procs, u \in Users, specs \in TicketLists : OrderSerializer_is_valid(p, u, specs)
    \/ \E p \in Procs : Order_objects_create(p)
    \/ \E p \in Procs : Ticket_full_clean(p)
    \/ \E p \in Procs : Ticket_insert(p)
    \/ \E p \in Procs : DeadlockAbort(p)
    \/ \E p \in Procs : Commit(p)
    \/ \E u \in Users, id \in OrderIds : OrderViewSet_destroy(u, id)
    \/ \E f \in FlightIds : FlightViewSet_destroy(f)

Spec == Init /\ [][Next]_vars

\* two booking transactions, each run once, that both ask for RaceSeat and
\* are otherwise well-formed (in range, no seat twice in one order)
RaceProcs == {1, 2}
RaceSeat == [flight |-> 1, row |-> 1, seat |-> 1]
RaceLists ==
    {l \in BookableLists :
        /\ \E i \in 1..Len(l) : l[i] = RaceSeat
        /\ \A i, j \in 1..Len(l) : l[i] = l[j] => i = j}

NextRace ==
    \/ \E p \in RaceProcs, u \in Users, specs \in RaceLists :
            pc[p] = "idle" /\ OrderSerializer_is_valid(p, u, specs)
    \/ \E p \in RaceProcs : Order_objects_create(p)
    \/ \E p \in RaceProcs : Ticket_full_clean(p)
    \/ \E p \in RaceProcs : Ticket_insert(p)
    \/ \E p \in RaceProcs : DeadlockAbort(p)
    \/ \E p \in RaceProcs : Commit(p)

SpecRace == Init /\ [][NextRace]_vars

\* Ticket validation alone, over airplane types of 1..MaxDim rows and seats
ValidateInputs == [flight : FlightIds, row : 0..(MaxDim + 1), seat : 0..(MaxDim + 1)]

InitTicket ==
    /\ flights = FlightIds
    /\ orders = {}
    /\ tickets = {}
    /\ nextOrderId = 1
    /\ pc = [p \in Procs |-> "idle"]
    /\ actor = [p \in Procs |-> 0]
    /\ req = [p \in Procs |-> <<>>]
    /\ idx = [p \in Procs |-> 0]
    /\ txOrder = [p \in Procs |-> 0]
    /\ txTickets = [p \in Procs |-> {}]
    /\ resp = NoResp
    /\ airplane_type \in [rows : 1..MaxDim, seats_in_row : 1..MaxDim]
    /\ flight_times = [f \in FlightIds |-> [departure_time |-> 1, arrival_time |-> 2]]
    /\ routes = {}
    /\ airplanes = {}
    /\ airplane_types = {}
    /\ positions = PositionIds
    /\ crew_members = CrewRows

\* one item run through TicketSerializer; req[1] keeps the item, resp the answer
TicketSerializer_run_validation(spec) ==
    /\ LET err == TicketSerializer_validate(spec)
       IN  resp' = [op |-> "validate", user |-> 0, status |-> IF err = OK THEN 200 ELSE 400,
                    body |-> <<err>>, detail |-> "", data |-> {}, at |-> 0]
    /\ req' = [req EXCEPT ![1] = <<spec>>]
    /\ UNCHANGED <<flights, orders, tickets, nextOrderId, pc, actor, idx, txOrder,
                   txTickets, airplane_type, catalog>>

NextTicket == \E spec \in ValidateInputs : TicketSerializer_run_validation(spec)

SpecTicket == InitTicket /\ [][NextTicket]_vars

\* the order API used by several actors: bookings of in-range seats, and
\* list / retrieve / update / destroy
NextOrders ==
    \/ \E p \in Procs, u \in Users, specs \in BookableLists : OrderSerializer_is_valid(p, u, specs)
    \/ \E p \in Procs : Order_objects_create(p)
    \/ \E p \in Procs : Ticket_full_clean(p)
    \/ \E p \in Procs : Ticket_insert(p)
    \/ \E p \in Procs : DeadlockAbort(p)
    \/ \E p \in Procs : Commit(p)
    \/ \E u \in Users : OrderViewSet_list(u)
    \/ \E u \in Users, id \in OrderIds : OrderViewSet_retrieve(u, id)
    \/ \E u \in Users, id \in OrderIds, partial \in BOOLEAN, body \in UpdateBodies :
            OrderViewSet_update(u, id, partial, body)
    \/ \E u \in Users, id \in OrderIds : OrderViewSet_destroy(u, id)

SpecOrders == Init /\ [][NextOrders]_vars

\* --------------------------------------------------- FlightViewSet.list
\* FlightListSerializer over one Flight of FlightViewSet.get_queryset.
\* tickets_available is a read-only IntegerField read from the instance;
\* get_queryset only filters and calls distinct(), it annotates nothing and
\* Flight has no such attribute, so the field is left out of the
\* representation: a field is written as the set of its values, {} when the
\* key is missing
FlightListSerializer(f) ==
    [id |-> f,
     departure_time |-> {flight_times[f].departure_time},
     arrival_time |-> {flight_times[f].arrival_time},
     tickets_available |-> {}]

\* GET /flights/ without query parameters: every Flight, through
\* FlightListSerializer
FlightViewSet_list ==
    /\ resp' = SimpleResp("flight-list", 0, 0, 200, {FlightListSerializer(f) : f \in flights})
    /\ UNCHANGED <<flights, orders, tickets, nextOrderId, pc, actor, req, idx, txOrder,
                   txTickets, airplane_type, catalog>>

\* bookings of in-range seats by one handler, and reads of the flight list
NextAvail ==
    \/ \E u \in Users, specs \in BookableLists : OrderSerializer_is_valid(1, u, specs)
    \/ Order_objects_create(1)
    \/ Ticket_full_clean(1)
    \/ Ticket_insert(1)
    \/ Commit(1)
    \/ \E u \in Users, id \in OrderIds : OrderViewSet_destroy(u, id)
    \/ FlightViewSet_list

SpecAvail == Init /\ [][NextAvail]_vars

\* ---------------------------------------------------------------- Route
\* Python's None: the value of a nullable field that is not set
None == -100

AirportIds == 1..NumAirports

\* request bodies: a body gives some of the fields, each a value of its set
Bodies(V) ==
    UNION {{b \in [F -> UNION {V[k] : k \in F}] : \A k \in F : b[k] \in V[k]} :
             F \in SUBSET (DOMAIN V)}

RouteBodies ==
    Bodies([source |-> AirportIds, destination |-> AirportIds, distance |-> {None, -1, 0, 1}])

\* validators.validate_positive_number: only a value below zero is an error
validate_positive_number(value) == IF value < 0 THEN "negative" ELSE OK

validate_route_ignored(source, destination) == OK

\* Route.validate_route: the key of the error raised, OK when none is
validate_route(source, destination) ==
    IF source = destination THEN "destination" ELSE OK

\* Route.Meta.constraints: no row of rowset has this (source, destination)
unique_source_destination(rowset, source, destination) ==
    ~\E r \in rowset : r.source = source /\ r.destination = destination

\* the instance of a serializer that creates
NoRoute == [id |-> 0, source |-> None, destination |-> None, distance |-> None]

\* the value field k has once attrs are applied to the instance
Effective(inst, body, k) == IF k \in DOMAIN body THEN body[k] ELSE inst[k]

\* the AutoField primary key given to the next row of a table nothing was
\* deleted from
NextId(ids) ==
    IF ids = {} THEN 1 ELSE (CHOOSE i \in ids : \A j \in ids : j <= i) + 1

\* RouteSerializer(instance, data, partial).is_valid(): the fields (source
\* and destination are required unless partial, distance carries
\* validate_positive_number and may be null), then the unique-together
\* validator built from Route.Meta.constraints (missing fields are read from
\* the instance, the instance itself is excluded), then
\* RouteSerializer.validate, which reads attrs["source"] and
\* attrs["destination"]: a KeyError when the body has not both
RouteSerializer_is_valid(inst, partial, body) ==
    IF ~partial /\ ~({"source", "destination"} \subseteq DOMAIN body)
    THEN [status |-> 400, detail |-> "required"]
    ELSE IF "distance" \in DOMAIN body /\ body.distance # None
            /\ validate_positive_number(body.distance) # OK
    THEN [status |-> 400, detail |-> "distance"]
    ELSE IF ~unique_source_destination({r \in routes : r.id # inst.id},
                                       Effective(inst, body, "source"),
                                       Effective(inst, body, "destination"))
    THEN [status |-> 400, detail |-> "non_field_errors"]
    ELSE IF ~({"source", "destination"} \subseteq DOMAIN body)
    THEN [status |-> 500, detail |-> "KeyError"]
    ELSE IF validate_route(body.source, body.destination) # OK
    THEN [status |-> 400, detail |-> validate_route(body.source, body.destination)]
    ELSE [status |-> 200, detail |-> OK]

\* Route.save -> full_clean(): clean_fields, Route.clean, validate_constraints;
\* the key of the django.core.exceptions.ValidationError, OK when none is
Route_full_clean(row) ==
    IF row.distance # None /\ validate_positive_number(row.distance) # OK THEN "distance"
    ELSE IF validate_route(row.source, row.destination) # OK THEN "destination"
    ELSE IF ~unique_source_destination({r \in routes : r.id # row.id}, row.source,
                                       row.destination)
    THEN "unique_source_destination"
    ELSE OK

\* the answer of a catalog write: at is the id in the URL (0 for a create),
\* data the id of the row written
WriteResp(op, id, st, detail, data) ==
    [op |-> op, user |-> 0, status |-> st, body |-> <<>>, detail |-> detail,
     data |-> data, at |-> id]

\* POST /routes/ by an administrator; req[1] keeps the request: the body, and
\* whether it was a PATCH
RouteViewSet_create(body) ==
    /\ Cardinality(routes) < MaxRoutes
    /\ LET v == RouteSerializer_is_valid(NoRoute, FALSE, body)
           row == [id |-> NextId({r.id : r \in routes}), source |-> body.source,
                   destination |-> body.destination,
                   distance |-> Effective(NoRoute, body, "distance")]
       IN  IF v.status # 200
           THEN /\ resp' = WriteResp("route-create", 0, v.status, v.detail, {})
                /\ UNCHANGED routes
           ELSE IF Route_full_clean(row) # OK
           THEN /\ resp' = WriteResp("route-create", 0, 500, "ValidationError", {})
                /\ UNCHANGED routes
           ELSE /\ routes' = routes \cup {row}
                /\ resp' = WriteResp("route-create", 0, 201, OK, {row.id})
    /\ req' = [req EXCEPT ![1] = <<body, FALSE>>]
    /\ UNCHANGED <<flights, orders, tickets, nextOrderId, pc, actor, idx, txOrder, txTickets,
                   airplane_type, flight_times, airplanes, airplane_types, staffing>>

\* PUT / PATCH /routes/{id}/ by an administrator
RouteViewSet_update(id, partial, body) ==
    /\ IF ~\E r \in routes : r.id = id
       THEN /\ resp' = WriteResp("route-update", id, 404, OK, {})
            /\ UNCHANGED routes
       ELSE LET inst == CHOOSE r \in routes : r.id = id
                v == RouteSerializer_is_valid(inst, partial, body)
                row == [id |-> id, source |-> Effective(inst, body, "source"),
                        destination |-> Effective(inst, body, "destination"),
                        distance |-> Effective(inst, body, "distance")]
            IN  IF v.status # 200
                THEN /\ resp' = WriteResp("route-update", id, v.status, v.detail, {})
                     /\ UNCHANGED routes
                ELSE IF Route_full_clean(row) # OK
                THEN /\ resp' = WriteResp("route-update", id, 500, "ValidationError", {})
                     /\ UNCHANGED routes
                ELSE /\ routes' = (routes \ {inst}) \cup {row}
                     /\ resp' = WriteResp("route-update", id, 200, OK, {id})
    /\ req' = [req EXCEPT ![1] = <<body, partial>>]
    /\ UNCHANGED <<flights, orders, tickets, nextOrderId, pc, actor, idx, txOrder, txTickets,
                   airplane_type, flight_times, airplanes, airplane_types, staffing>>

RouteIds == 1..MaxRoutes

\* the route API used by an administrator
NextRoutes ==
    \/ \E body \in RouteBodies : RouteViewSet_create(body)
    \/ \E id \in RouteIds, partial \in BOOLEAN, body \in RouteBodies :
            RouteViewSet_update(id, partial, body)

SpecRoutes == Init /\ [][NextRoutes]_vars

\* --------------------------------------------------------------- Flight
Times == 1..MaxTime

\* bodies of flight writes: route, airplane and crew are taken as given and
\* valid whenever the request needs them
FlightBodies == Bodies([departure_time |-> Times, arrival_time |-> Times])

validate_flight_equal_allowed(departure_time, arrival_time) ==
    IF departure_time > arrival_time THEN "arrival_time" ELSE OK

\* Flight.validate_flight: the key of the error raised, OK when none is
validate_flight(departure_time, arrival_time) ==
    IF departure_time >= arrival_time THEN "arrival_time" ELSE OK

\* FlightSerializer(instance, data, partial).is_valid(): both times are
\* required unless partial; FlightSerializer.validate reads
\* attrs["departure_time"] and attrs["arrival_time"]: a KeyError when the
\* body has not both
FlightSerializer_is_valid(partial, body) ==
    IF ~partial /\ ~({"departure_time", "arrival_time"} \subseteq DOMAIN body)
    THEN [status |-> 400, detail |-> "required"]
    ELSE IF ~({"departure_time", "arrival_time"} \subseteq DOMAIN body)
    THEN [status |-> 500, detail |-> "KeyError"]
    ELSE IF validate_flight(body.departure_time, body.arrival_time) # OK
    THEN [status |-> 400,
          detail |-> validate_flight(body.departure_time, body.arrival_time)]
    ELSE [status |-> 200, detail |-> OK]

\* Flight.save -> full_clean() -> Flight.clean
Flight_full_clean(row) == validate_flight(row.departure_time, row.arrival_time)

\* POST /flights/ by an administrator
FlightViewSet_create(body) ==
    /\ Cardinality(flights) <= NumFlights
    /\ LET v == FlightSerializer_is_valid(FALSE, body)
           id == NextId(flights)
           row == [departure_time |-> body.departure_time,
                   arrival_time |-> body.arrival_time]
       IN  IF v.status # 200
           THEN /\ resp' = WriteResp("flight-create", 0, v.status, v.detail, {})
                /\ UNCHANGED <<flights, flight_times>>
           ELSE IF Flight_full_clean(row) # OK
           THEN /\ resp' = WriteResp("flight-create", 0, 500, "ValidationError", {})
                /\ UNCHANGED <<flights, flight_times>>
           ELSE /\ flights' = flights \cup {id}
                /\ flight_times' = [g \in flights \cup {id} |->
                                       IF g = id THEN row ELSE flight_times[g]]
                /\ resp' = WriteResp("flight-create", 0, 201, OK, {id})
    /\ req' = [req EXCEPT ![1] = <<body, FALSE>>]
    /\ UNCHANGED <<orders, tickets, nextOrderId, pc, actor, idx, txOrder, txTickets,
                   airplane_type, routes, airplanes, airplane_types, staffing>>

\* PUT / PATCH /flights/{id}/ by an administrator
FlightViewSet_update(id, partial, body) ==
    /\ IF id \notin flights
       THEN /\ resp' = WriteResp("flight-update", id, 404, OK, {})
            /\ UNCHANGED flight_times
       ELSE LET v == FlightSerializer_is_valid(partial, body)
                row == [departure_time |-> Effective(flight_times[id], body, "departure_time"),
                        arrival_time |-> Effective(flight_times[id], body, "arrival_time")]
            IN  IF v.status # 200
                THEN /\ resp' = WriteResp("flight-update", id, v.status, v.detail, {})
                     /\ UNCHANGED flight_times
                ELSE IF Flight_full_clean(row) # OK
                THEN /\ resp' = WriteResp("flight-update", id, 500, "ValidationError", {})
                     /\ UNCHANGED flight_times
                ELSE /\ flight_times' = [flight_times EXCEPT ![id] = row]
                     /\ resp' = WriteResp("flight-update", id, 200, OK, {id})
    /\ req' = [req EXCEPT ![1] = <<body, partial>>]
    /\ UNCHANGED <<flights, orders, tickets, nextOrderId, pc, actor, idx, txOrder, txTickets,
                   airplane_type, routes, airplanes, airplane_types, staffing>>

\* the flight API used by an administrator
NextFlights ==
    \/ \E body \in FlightBodies : FlightViewSet_create(body)
    \/ \E id \in 1..(NumFlights + 1), partial \in BOOLEAN, body \in FlightBodies :
            FlightViewSet_update(id, partial, body)

SpecFlights == Init /\ [][NextFlights]_vars

\* ------------------------------------------------------------- Airplane
DateValues == (1..MaxDate) \cup {None}

\* bodies of airplane writes: type and serial_number are taken as given and
\* valid whenever the request needs them
AirplaneBodies ==
    Bodies([manufacture_date |-> DateValues, operation_start_date |-> DateValues,
            last_maintenance_date |-> DateValues])

\* Airplane.validate_airplane: the key of the error raised, OK when none is
validate_airplane(manufacture_date, operation_start_date, last_maintenance_date) ==
    IF operation_start_date # None /\ manufacture_date # None
       /\ operation_start_date < manufacture_date
    THEN "operation_start_date"
    ELSE IF last_maintenance_date # None /\ manufacture_date # None
            /\ last_maintenance_date < manufacture_date
    THEN "last_maintenance"
    ELSE IF operation_start_date # None /\ last_maintenance_date # None
            /\ operation_start_date > last_maintenance_date
    THEN "operation_start_date"
    ELSE OK

\* attrs.get(k)
Get(attrs, k) == IF k \in DOMAIN attrs THEN attrs[k] ELSE None

\* AirplaneSerializer.validate: the three dates are optional; the check is
\* made on attrs.get(...) of each, so a date the body does not give counts
\* as None here
AirplaneSerializer_is_valid(body) ==
    LET err == validate_airplane(Get(body, "manufacture_date"),
                                 Get(body, "operation_start_date"),
                                 Get(body, "last_maintenance_date"))
    IN  IF err # OK THEN [status |-> 400, detail |-> err]
        ELSE [status |-> 200, detail |-> OK]

Airplane_clean_skipped(row) == OK

\* Airplane.save -> full_clean() -> Airplane.clean, on the row as it would
\* be stored
Airplane_clean(row) ==
    validate_airplane(row.manufacture_date, row.operation_start_date,
                      row.last_maintenance_date)

NoAirplane ==
    [id |-> 0, manufacture_date |-> None, operation_start_date |-> None,
     last_maintenance_date |-> None]

\* the Airplane row that results from applying attrs to inst
Airplane_row(id, inst, body) ==
    [id |-> id,
     manufacture_date |-> Effective(inst, body, "manufacture_date"),
     operation_start_date |-> Effective(inst, body, "operation_start_date"),
     last_maintenance_date |-> Effective(inst, body, "last_maintenance_date")]

\* POST /airplanes/ by an administrator
AirplaneViewSet_create(body) ==
    /\ Cardinality(airplanes) < MaxAirplanes
    /\ LET v == AirplaneSerializer_is_valid(body)
           row == Airplane_row(NextId({a.id : a \in airplanes}), NoAirplane, body)
       IN  IF v.status # 200
           THEN /\ resp' = WriteResp("airplane-create", 0, v.status, v.detail, {})
                /\ UNCHANGED airplanes
           ELSE IF Airplane_clean(row) # OK
           THEN /\ resp' = WriteResp("airplane-create", 0, 500, "ValidationError", {})
                /\ UNCHANGED airplanes
           ELSE /\ airplanes' = airplanes \cup {row}
                /\ resp' = WriteResp("airplane-create", 0, 201, OK, {row.id})
    /\ req' = [req EXCEPT ![1] = <<body, FALSE>>]
    /\ UNCHANGED <<flights, orders, tickets, nextOrderId, pc, actor, idx, txOrder, txTickets,
                   airplane_type, flight_times, routes, airplane_types, staffing>>

\* PUT / PATCH /airplanes/{id}/ by an administrator: no date is required, so
\* both apply the dates the body gives and keep the others
AirplaneViewSet_update(id, partial, body) ==
    /\ IF ~\E a \in airplanes : a.id = id
       THEN /\ resp' = WriteResp("airplane-update", id, 404, OK, {})
            /\ UNCHANGED airplanes
       ELSE LET inst == CHOOSE a \in airplanes : a.id = id
                v == AirplaneSerializer_is_valid(body)
                row == Airplane_row(id, inst, body)
            IN  IF v.status # 200
                THEN /\ resp' = WriteResp("airplane-update", id, v.status, v.detail, {})
                     /\ UNCHANGED airplanes
                ELSE IF Airplane_clean(row) # OK
                THEN /\ resp' = WriteResp("airplane-update", id, 500, "ValidationError", {})
                     /\ UNCHANGED airplanes
                ELSE /\ airplanes' = (airplanes \ {inst}) \cup {row}
                     /\ resp' = WriteResp("airplane-update", id, 200, OK, {id})
    /\ req' = [req EXCEPT ![1] = <<body, partial>>]
    /\ UNCHANGED <<flights, orders, tickets, nextOrderId, pc, actor, idx, txOrder, txTickets,
                   airplane_type, flight_times, routes, airplane_types, staffing>>

\* the airplane API used by an administrator
NextAirplanes ==
    \/ \E body \in AirplaneBodies : AirplaneViewSet_create(body)
    \/ \E id \in 1..MaxAirplanes, partial \in BOOLEAN, body \in AirplaneBodies :
            AirplaneViewSet_update(id, partial, body)

SpecAirplanes == Init /\ [][NextAirplanes]_vars

\* --------------------------------------------------------- AirplaneType
\* rows and seats_in_row offered in requests
DimInputs == (0 - 1)..MaxDim

\* bodies of airplane type writes: model and manufacturer are taken as given
\* and valid whenever the request needs them
AirplaneTypeBodies == Bodies([rows |-> DimInputs, seats_in_row |-> DimInputs])

\* AirplaneType.capacity
capacity(t) == t.rows * t.seats_in_row

\* AirplaneTypeSerializer(instance, data, partial).is_valid(): rows and
\* seats_in_row are required unless partial, and each carries the model
\* field's validator validate_positive_number
AirplaneTypeSerializer_is_valid(partial, body) ==
    IF ~partial /\ ~({"rows", "seats_in_row"} \subseteq DOMAIN body)
    THEN [status |-> 400, detail |-> "required"]
    ELSE IF "rows" \in DOMAIN body /\ validate_positive_number(body.rows) # OK
    THEN [status |-> 400, detail |-> "rows"]
    ELSE IF "seats_in_row" \in DOMAIN body /\ validate_positive_number(body.seats_in_row) # OK
    THEN [status |-> 400, detail |-> "seats_in_row"]
    ELSE [status |-> 200, detail |-> OK]

\* POST /airplane-types/ by an administrator; AirplaneType has no save() of
\* its own, the validated row is inserted as it is
AirplaneTypeViewSet_create(body) ==
    /\ Cardinality(airplane_types) < MaxAirplaneTypes
    /\ LET v == AirplaneTypeSerializer_is_valid(FALSE, body)
           row == [id |-> NextId({t.id : t \in airplane_types}), rows |-> body.rows,
                   seats_in_row |-> body.seats_in_row]
       IN  IF v.status # 200
           THEN /\ resp' = WriteResp("airplane-type-create", 0, v.status, v.detail, {})
                /\ UNCHANGED airplane_types
           ELSE /\ airplane_types' = airplane_types \cup {row}
                /\ resp' = WriteResp("airplane-type-create", 0, 201, OK, {row.id})
    /\ req' = [req EXCEPT ![1] = <<body, FALSE>>]
    /\ UNCHANGED <<flights, orders, tickets, nextOrderId, pc, actor, idx, txOrder, txTickets,
                   airplane_type, flight_times, routes, airplanes, staffing>>

\* PUT / PATCH /airplane-types/{id}/ by an administrator
AirplaneTypeViewSet_update(id, partial, body) ==
    /\ IF ~\E t \in airplane_types : t.id = id
       THEN /\ resp' = WriteResp("airplane-type-update", id, 404, OK, {})
            /\ UNCHANGED airplane_types
       ELSE LET inst == CHOOSE t \in airplane_types : t.id = id
                v == AirplaneTypeSerializer_is_valid(partial, body)
                row == [id |-> id, rows |-> Effective(inst, body, "rows"),
                        seats_in_row |-> Effective(inst, body, "seats_in_row")]
            IN  IF v.status # 200
                THEN /\ resp' = WriteResp("airplane-type-update", id, v.status, v.detail, {})
                     /\ UNCHANGED airplane_types
                ELSE /\ airplane_types' = (airplane_types \ {inst}) \cup {row}
                     /\ resp' = WriteResp("airplane-type-update", id, 200, OK, {id})
    /\ req' = [req EXCEPT ![1] = <<body, partial>>]
    /\ UNCHANGED <<flights, orders, tickets, nextOrderId, pc, actor, idx, txOrder, txTickets,
                   airplane_type, flight_times, routes, airplanes, staffing>>

\* the airplane type API used by an administrator
NextAirplaneTypes ==
    \/ \E body \in AirplaneTypeBodies : AirplaneTypeViewSet_create(body)
    \/ \E id \in 1..MaxAirplaneTypes, partial \in BOOLEAN, body \in AirplaneTypeBodies :
            AirplaneTypeViewSet_update(id, partial, body)

SpecAirplaneTypes == Init /\ [][NextAirplaneTypes]_vars

\* -------------------------------------------------------- access policy
\* the viewsets registered in airport/urls.py
ViewSets ==
    {"positions", "crew-members", "airplane-types", "airplanes", "airports", "routes",
     "flights", "orders"}

\* the actions of a ModelViewSet and the HTTP method of each
Actions == {"list", "retrieve", "create", "update", "partial_update", "destroy"}

method(action) ==
    CASE action \in {"list", "retrieve"} -> "GET"
      [] action = "create" -> "POST"
      [] action = "update" -> "PUT"
      [] action = "partial_update" -> "PATCH"
      [] action = "destroy" -> "DELETE"

SAFE_METHODS == {"GET", "HEAD", "OPTIONS"}

\* request.user: AnonymousUser, a user who is not staff, a staff user
AnonymousUser == [is_authenticated |-> FALSE, is_staff |-> FALSE]
Actors ==
    {AnonymousUser, [is_authenticated |-> TRUE, is_staff |-> FALSE],
     [is_authenticated |-> TRUE, is_staff |-> TRUE]}

\* IsAdmin.has_permission
IsAdmin_has_permission(user, m) == user.is_authenticated /\ user.is_staff

has_permission_authenticated_or_read_only(user, m) ==
    user.is_authenticated \/ m \in SAFE_METHODS

has_permission_staff_only(user, m) == user.is_authenticated /\ user.is_staff

\* IsAdminOrAllowAnyReadOnly.has_permission
IsAdminOrAllowAnyReadOnly_has_permission(user, m) ==
    (user.is_authenticated /\ user.is_staff) \/ m \in SAFE_METHODS

has_permission(class, user, m) ==
    IF class = "IsAdmin" THEN IsAdmin_has_permission(user, m)
    ELSE IsAdminOrAllowAnyReadOnly_has_permission(user, m)

\* the project's DEFAULT_PERMISSION_CLASSES: the class under which the flight,
\* route, airport and airplane endpoints are readable by anyone and writable
\* by staff only
DEFAULT_PERMISSION_CLASSES == {"IsAdminOrAllowAnyReadOnly"}

\* no viewset of airport/views.py sets permission_classes (the three
\* "permission_classes = (IsAdmin,)" lines are comments), so every view has
\* the project's default
permission_classes(view) == DEFAULT_PERMISSION_CLASSES

\* the project's authentication answers an unauthenticated request that is
\* denied with a WWW-Authenticate header, which makes the denial a 401
authenticate_header == TRUE

check_permissions_skipped(view, user, m) == 0

\* APIView.check_permissions / permission_denied: 0 when permitted
check_permissions(view, user, m) ==
    IF \A class \in permission_classes(view) : has_permission(class, user, m) THEN 0
    ELSE IF ~user.is_authenticated /\ authenticate_header THEN 401
    ELSE 403

\* what the handler of the action answers to a well-formed request for an
\* existing object once it is permitted; OrderViewSet.get_queryset filters on
\* request.user, which fails for AnonymousUser
handler_status(view, action, user) ==
    IF view = "orders" /\ ~user.is_authenticated THEN 500
    ELSE IF action = "create" THEN 201
    ELSE IF action = "destroy" THEN 204
    ELSE 200

\* a request reaches a viewset: APIView.initial checks the permissions before
\* the handler runs.  req[1] keeps the request, resp the answer; the rows the
\* permitted handlers write are not followed here
ViewSet_dispatch(view, action, user) ==
    /\ LET denied == check_permissions(view, user, method(action))
       IN  resp' = IF denied # 0
                   THEN WriteResp("dispatch", 0, denied, "denied", {})
                   ELSE WriteResp("dispatch", 0, handler_status(view, action, user), OK, {})
    /\ req' = [req EXCEPT ![1] = <<view, action, user>>]
    /\ UNCHANGED <<flights, orders, tickets, nextOrderId, pc, actor, idx, txOrder, txTickets,
                   airplane_type, catalog>>

NextAccess ==
    \E view \in ViewSets, action \in Actions, user \in Actors : ViewSet_dispatch(view, action, user)

SpecAccess == Init /\ [][NextAccess]_vars

\* ------------------------------------------- deletions and their cascades
PositionViewSet_destroy_cascade(id) ==
    /\ IF id \in positions
       THEN /\ positions' = positions \ {id}
            /\ crew_members' = {c \in crew_members : c.position # id}
            /\ resp' = SimpleResp("position-destroy", 0, id, 204, {})
       ELSE /\ resp' = SimpleResp("position-destroy", 0, id, 404, {})
            /\ UNCHANGED <<positions, crew_members>>
    /\ UNCHANGED <<flights, orders, tickets, nextOrderId, pc, actor, req, idx, txOrder,
                   txTickets, airplane_type, flight_times, routes, airplanes, airplane_types>>

\* DELETE /positions/{id}/: get_object() answers 404 for an unknown id;
\* Position.delete() follows CrewMember.position, on_delete=SET_NULL: the crew
\* members of the position stay, with position = None
PositionViewSet_destroy(id) ==
    /\ IF id \in positions
       THEN /\ positions' = positions \ {id}
            /\ crew_members' = {IF c.position = id THEN [c EXCEPT !.position = None] ELSE c :
                                   c \in crew_members}
            /\ resp' = SimpleResp("position-destroy", 0, id, 204, {})
       ELSE /\ resp' = SimpleResp("position-destroy", 0, id, 404, {})
            /\ UNCHANGED <<positions, crew_members>>
    /\ UNCHANGED <<flights, orders, tickets, nextOrderId, pc, actor, req, idx, txOrder,
                   txTickets, airplane_type, flight_times, routes, airplanes, airplane_types>>

\* bookings of in-range seats by one handler, order deletions and position
\* deletions
NextCascade ==
    \/ \E u \in Users, specs \in BookableLists : OrderSerializer_is_valid(1, u, specs)
    \/ Order_objects_create(1)
    \/ Ticket_full_clean(1)
    \/ Ticket_insert(1)
    \/ Commit(1)
    \/ \E u \in Users, id \in OrderIds : OrderViewSet_destroy(u, id)
    \/ \E id \in PositionIds : PositionViewSet_destroy(id)

SpecCascade == Init /\ [][NextCascade]_vars

\* ---------------------------------- the airplane type of booked flights
\* PUT / PATCH /airplane-types/{id}/ by an administrator, for the AirplaneType
\* the flights are operated with: the serializer validates the two numbers
\* and the row is saved; neither AirplaneTypeSerializer nor AirplaneType looks
\* at the Tickets of the flights that use the type
AirplaneTypeViewSet_update_operated(partial, body) ==
    /\ LET v == AirplaneTypeSerializer_is_valid(partial, body)
           row == [rows |-> Effective(airplane_type, body, "rows"),
                   seats_in_row |-> Effective(airplane_type, body, "seats_in_row")]
       IN  IF v.status # 200
           THEN /\ resp' = WriteResp("airplane-type-update", 0, v.status, v.detail, {})
                /\ UNCHANGED airplane_type
           ELSE /\ airplane_type' = row
                /\ resp' = WriteResp("airplane-type-update", 0, 200, OK, {})
    /\ UNCHANGED <<flights, orders, tickets, nextOrderId, pc, actor, req, idx, txOrder,
                   txTickets, catalog>>

\* one-ticket orders for any seat of the largest airplane type, and updates
\* of the type to positive rows and seats_in_row
FleetLists == {<<s>> : s \in [flight : FlightIds, row : 1..MaxDim, seat : 1..MaxDim]}
FleetTypeBodies == Bodies([rows |-> 1..MaxDim, seats_in_row |-> 1..MaxDim])

\* bookings by one handler on flights whose airplane type an administrator
\* updates
NextFleet ==
    \/ \E u \in Users, specs \in FleetLists : OrderSerializer_is_valid(1, u, specs)
    \/ Order_objects_create(1)
    \/ Ticket_full_clean(1)
    \/ Ticket_insert(1)
    \/ Commit(1)
    \/ \E partial \in BOOLEAN, body \in FleetTypeBodies :
            AirplaneTypeViewSet_update_operated(partial, body)

SpecFleet == InitTicket /\ [][NextFleet]_vars

\* ------------------------------------------------- the life of an order
\* bookings of in-range seats by one handler, order updates and deletions by
\* every user, and flight deletions
NextOrderLife ==
    \/ \E u \in Users, specs \in BookableLists : OrderSerializer_is_valid(1, u, specs)
    \/ Order_objects_create(1)
    \/ Ticket_full_clean(1)
    \/ Ticket_insert(1)
    \/ Commit(1)
    \/ \E u \in Users, id \in OrderIds, partial \in BOOLEAN, body \in UpdateBodies :
            OrderViewSet_update(u, id, partial, body)
    \/ \E u \in Users, id \in OrderIds : OrderViewSet_destroy(u, id)
    \/ \E f \in FlightIds : FlightViewSet_destroy(f)

SpecOrderLife == Init /\ [][NextOrderLife]_vars

\* ------------------------------------- concurrent bookings of other seats
\* the seats asked for by the handlers other than p whose request is under way
AskedByOthers(p) == UNION {{req[q][i] : i \in 1..Len(req[q])} : q \in Procs \ {p}}

\* bodies of POST /orders/ for handler p whose specs are in range of the
\* airplane type, pairwise different, not sold and not asked for by a request
\* under way
DisjointLists(p) ==
    {l \in SeqsUpTo([flight : FlightIds, row : 1..TypeRows, seat : 1..MaxDim], MaxTickets) :
        /\ Len(l) >= 1
        /\ \A i, j \in 1..Len(l) : l[i] = l[j] => i = j
        /\ \A i \in 1..Len(l) :
              /\ validate_ticket(l[i].row, l[i].seat, l[i].flight) = OK
              /\ unique_flight_row_seat(tickets, l[i])
              /\ l[i] \notin AskedByOthers(p)}

\* flights operated with an airplane type of TypeRows rows of MaxDim seats
InitDisjoint ==
    /\ flights = FlightIds
    /\ orders = {}
    /\ tickets = {}
    /\ nextOrderId = 1
    /\ pc = [p \in Procs |-> "idle"]
    /\ actor = [p \in Procs |-> 0]
    /\ req = [p \in Procs |-> <<>>]
    /\ idx = [p \in Procs |-> 0]
    /\ txOrder = [p \in Procs |-> 0]
    /\ txTickets = [p \in Procs |-> {}]
    /\ resp = NoResp
    /\ airplane_type = [rows |-> TypeRows, seats_in_row |-> MaxDim]
    /\ flight_times = [f \in FlightIds |-> [departure_time |-> 1, arrival_time |-> 2]]
    /\ routes = {}
    /\ airplanes = {}
    /\ airplane_types = {}
    /\ positions = PositionIds
    /\ crew_members = CrewRows

\* two booking transactions, each run once, for seats that are valid, free
\* and asked for by no one else; every handler that has work to do gets to
\* do it
NextDisjoint ==
    \/ \E p \in RaceProcs, u \in Users : \E specs \in DisjointLists(p) :
            pc[p] = "idle" /\ OrderSerializer_is_valid(p, u, specs)
    \/ \E p \in RaceProcs : Order_objects_create(p)
    \/ \E p \in RaceProcs : Ticket_full_clean(p)
    \/ \E p \in RaceProcs : Ticket_insert(p)
    \/ \E p \in RaceProcs : Commit(p)

HandlerStep(p) ==
    Order_objects_create(p) \/ Ticket_full_clean(p) \/ Ticket_insert(p) \/ Commit(p)

SpecDisjoint ==
    InitDisjoint /\ [][NextDisjoint]_vars /\ \A p \in RaceProcs : WF_vars(HandlerStep(p))

\* ------------------------------------------ permissions before handlers
\* write requests sent to the viewsets: for each entity a body that passes
\* validation and one that fails it
GateRouteBodies ==
    {b \in RouteBodies : DOMAIN b = {"source", "destination"} /\ b.source = 1
                         /\ b.destination \in {1, 2}}
GateFlightBodies ==
    {b \in FlightBodies : DOMAIN b = {"departure_time", "arrival_time"}
                          /\ b.departure_time = 2 /\ b.arrival_time \in {2, 3}}
GateAirplaneBodies ==
    {b \in AirplaneBodies : DOMAIN b = {"manufacture_date", "operation_start_date"}
                            /\ b.manufacture_date = 2 /\ b.operation_start_date \in {1, 2}}
GateAirplaneTypeBodies ==
    {b \in AirplaneTypeBodies : DOMAIN b = {"rows", "seats_in_row"} /\ b.rows = 1
                                /\ b.seats_in_row \in {0 - 1, 1}}

GateBodies(view) ==
    CASE view = "routes" -> GateRouteBodies
      [] view = "flights" -> GateFlightBodies
      [] view = "airplanes" -> GateAirplaneBodies
      [] view = "airplane-types" -> GateAirplaneTypeBodies

GateRequests ==
    {[view |-> v, action |-> a, id |-> IF a = "create" THEN 0 ELSE 1, body |-> b] :
        v \in {"routes"}, a \in {"create", "update", "partial_update"}, b \in GateBodies("routes")}
    \cup
    {[view |-> v, action |-> a, id |-> IF a = "create" THEN 0 ELSE 1, body |-> b] :
        v \in {"flights"}, a \in {"create", "partial_update"}, b \in GateBodies("flights")}
    \cup
    {[view |-> v, action |-> a, id |-> IF a = "create" THEN 0 ELSE 1, body |-> b] :
        v \in {"airplanes"}, a \in {"create", "update"}, b \in GateBodies("airplanes")}
    \cup
    {[view |-> v, action |-> a, id |-> IF a = "create" THEN 0 ELSE 1, body |-> b] :
        v \in {"airplane-types"}, a \in {"create", "update"}, b \in GateBodies("airplane-types")}
    \cup
    {[view |-> v, action |-> "destroy", id |-> 1, body |-> <<>>] : v \in {"flights", "positions"}}

\* the handler of a ModelViewSet action
ViewSet_handler(r) ==
    LET partial == r.action = "partial_update"
    IN  CASE r.view = "routes" /\ r.action = "create" -> RouteViewSet_create(r.body)
          [] r.view = "routes" /\ r.action # "create" -> RouteViewSet_update(r.id, partial, r.body)
          [] r.view = "flights" /\ r.action = "create" -> FlightViewSet_create(r.body)
          [] r.view = "flights" /\ r.action = "destroy" -> FlightViewSet_destroy(r.id)
          [] r.view = "flights" /\ r.action \notin {"create", "destroy"} ->
                FlightViewSet_update(r.id, partial, r.body)
          [] r.view = "airplanes" /\ r.action = "create" -> AirplaneViewSet_create(r.body)
          [] r.view = "airplanes" /\ r.action # "create" ->
                AirplaneViewSet_update(r.id, partial, r.body)
          [] r.view = "airplane-types" /\ r.action = "create" ->
                AirplaneTypeViewSet_create(r.body)
          [] r.view = "airplane-types" /\ r.action # "create" ->
                AirplaneTypeViewSet_update(r.id, partial, r.body)
          [] r.view = "positions" -> PositionViewSet_destroy(r.id)

\* APIView.dispatch: initial() runs check_permissions; permission_denied
\* raises before the handler is called, so a denied request is answered
\* without its body being read; a permitted one goes on to the handler.
\* For a denied request req[1] keeps the request and its user
APIView_dispatch(r, user) ==
    LET denied == check_permissions(r.view, user, method(r.action))
    IN  IF denied # 0
        THEN /\ resp' = WriteResp("dispatch", r.id, denied, "denied", {})
             /\ req' = [req EXCEPT ![1] =
                           <<[view |-> r.view, action |-> r.action, body |-> r.body,
                              user |-> user], r.action = "partial_update">>]
             /\ UNCHANGED <<flights, orders, tickets, nextOrderId, pc, actor, idx, txOrder,
                            txTickets, airplane_type, catalog>>
        ELSE ViewSet_handler(r)

NextGate == \E r \in GateRequests, user \in Actors : APIView_dispatch(r, user)

SpecGate == Init /\ [][NextGate]_vars

\* ------------------------------------------- FlightViewSet.get_queryset
\* most query parameters sent together
MaxParams == 3

\* the decimal strings int() converts, by value, and the ISO-8601 strings
\* datetime.fromisoformat converts, by the time 1..MaxTime they denote.  The
\* string of a query parameter is written as the sequence of its pieces
\* between commas: "1,2" is <<"1", "2">>, "abc" is <<"abc">>, "" is <<>>
IntStr == <<"1", "2", "3", "4">>
TimeStr == <<"2024-10-15T10:00:00", "2024-10-15T11:00:00", "2024-10-15T12:00:00",
             "2024-10-15T13:00:00">>

\* the exception int() and datetime.fromisoformat raise, as a value
ValueError == None

\* int(str_id): a string with a comma is no number
int(str_id) ==
    IF Len(str_id) = 1 /\ \E n \in DOMAIN IntStr : IntStr[n] = str_id[1]
    THEN CHOOSE n \in DOMAIN IntStr : IntStr[n] = str_id[1]
    ELSE ValueError

\* datetime.fromisoformat(value)
datetime_fromisoformat(value) ==
    IF Len(value) = 1 /\ \E n \in DOMAIN TimeStr : TimeStr[n] = value[1]
    THEN CHOOSE n \in DOMAIN TimeStr : TimeStr[n] = value[1]
    ELSE ValueError

\* FlightViewSet._params_to_ints: int() of every piece of qs.split(",")
params_to_ints(qs) == [i \in 1..Len(qs) |-> int(<<qs[i]>>)]

\* the route, the airplane and the airplane's type of the persisted flights
route_id(f) == 1 + (f % 2)
airplane_id(f) == f
airplane_type_id(a) == (a + 1) \div 2

ParamKeys ==
    <<"route", "airplane-types", "airplanes", "departure-time-from", "departure-time-to",
      "arrival-time-from", "arrival-time-to">>
ListKeys == {"airplane-types", "airplanes"}

\* the values sent for each query parameter
ListValues == SeqsUpTo({IntStr[n] : n \in FlightIds} \cup {"x"}, 2)
TimeValues == {<<TimeStr[t]>> : t \in Times} \cup {<<"soon">>}
ParamValues ==
    [k \in {ParamKeys[i] : i \in DOMAIN ParamKeys} |->
        IF k = "route" THEN {<<IntStr[n]>> : n \in FlightIds} \cup {<<"abc">>, <<>>}
        ELSE IF k \in ListKeys THEN ListValues
        ELSE TimeValues]

\* request.query_params: at most MaxParams parameters
QueryParams ==
    UNION {{q \in [F -> UNION {ParamValues[k] : k \in F}] : \A k \in F : q[k] \in ParamValues[k]} :
             F \in {G \in SUBSET (DOMAIN ParamValues) : Cardinality(G) <= MaxParams}}

\* "if route:" and the like: the parameter was sent and is not empty
given(q, k) == k \in DOMAIN q /\ q[k] # <<>>

\* the conversion inside the try block of parameter k raises ValueError
raises(q, k) ==
    /\ given(q, k)
    /\ IF k = "route" THEN int(q[k]) = ValueError
       ELSE IF k \in ListKeys
       THEN \E i \in 1..Len(q[k]) : params_to_ints(q[k])[i] = ValueError
       ELSE datetime_fromisoformat(q[k]) = ValueError

id__in_first(value, ids) == ids[1] = value

\* the lookup __in: value is one of ids
id__in(value, ids) == \E i \in 1..Len(ids) : ids[i] = value

gte_exclusive(value, bound) == value > bound

\* the lookups __gte and __lte
gte(value, bound) == value >= bound
lte(value, bound) == value <= bound

\* queryset.filter(...) of parameter k, for flight f
filter(q, k, f) ==
    CASE k = "route" -> route_id(f) = int(q[k])
      [] k = "airplane-types" -> id__in(airplane_type_id(airplane_id(f)), params_to_ints(q[k]))
      [] k = "airplanes" -> id__in(airplane_id(f), params_to_ints(q[k]))
      [] k = "departure-time-from" ->
            gte(flight_times[f].departure_time, datetime_fromisoformat(q[k]))
      [] k = "departure-time-to" ->
            lte(flight_times[f].departure_time, datetime_fromisoformat(q[k]))
      [] k = "arrival-time-from" ->
            gte(flight_times[f].arrival_time, datetime_fromisoformat(q[k]))
      [] k = "arrival-time-to" ->
            lte(flight_times[f].arrival_time, datetime_fromisoformat(q[k]))

\* queryset.distinct(): a result is written as the number of times each
\* flight occurs in it
distinct(result) == [f \in DOMAIN result |-> 1]

\* FlightViewSet.get_queryset.  The parameters are taken in the order of
\* ParamKeys; the first whose conversion raises ValueError ends the method
\* with "return Response({"error": ...}, status=400)": what the caller gets is
\* that Response and not a queryset (response = 400, error = the parameter).
\* Otherwise every given parameter filters self.queryset; the filters follow
\* route and airplane (to-one relations), so a flight occurs once in the
\* result, and distinct() is applied
get_queryset(q) ==
    IF \E i \in DOMAIN ParamKeys : raises(q, ParamKeys[i])
    THEN LET i == CHOOSE j \in DOMAIN ParamKeys :
                      /\ raises(q, ParamKeys[j])
                      /\ \A l \in 1..(j - 1) : ~raises(q, ParamKeys[l])
         IN  [response |-> 400, error |-> ParamKeys[i], result |-> <<>>]
    ELSE [response |-> 0, error |-> "",
          result |-> distinct([f \in {g \in flights :
                                   \A i \in DOMAIN ParamKeys :
                                       given(q, ParamKeys[i]) => filter(q, ParamKeys[i], g)}
                               |-> 1])]

\* GET /flights/?...: ListModelMixin.list pages and serializes
\* self.filter_queryset(self.get_queryset()).  A Response in the place of the
\* queryset cannot be counted or iterated: the TypeError reaches the
\* framework, which answers 500.  req[1] holds the query parameters; body is
\* the result, data the flights through FlightListSerializer
FlightViewSet_list_filtered ==
    /\ req[1] # <<>>
    /\ LET queryset == get_queryset(req[1][1])
       IN  resp' = IF queryset.response # 0
                   THEN [SimpleResp("flight-query", 0, 0, 500, {}) EXCEPT
                           !.detail = "TypeError: Response is not a queryset"]
                   ELSE [SimpleResp("flight-query", 0, 0, 200,
                                    {FlightListSerializer(f) : f \in DOMAIN queryset.result})
                           EXCEPT !.body = queryset.result]
    /\ UNCHANGED <<flights, orders, tickets, nextOrderId, pc, actor, req, idx, txOrder,
                   txTickets, airplane_type, catalog>>

\* persisted flights with any departure before arrival, and a flight list
\* request with its query parameters
InitFilter ==
    /\ flights = FlightIds
    /\ orders = {}
    /\ tickets = {}
    /\ nextOrderId = 1
    /\ pc = [p \in Procs |-> "idle"]
    /\ actor = [p \in Procs |-> 0]
    /\ \E q \in QueryParams : req = [p \in Procs |-> IF p = 1 THEN <<q>> ELSE <<>>]
    /\ idx = [p \in Procs |-> 0]
    /\ txOrder = [p \in Procs |-> 0]
    /\ txTickets = [p \in Procs |-> {}]
    /\ resp = NoResp
    /\ airplane_type = [rows |-> TypeRows, seats_in_row |-> TypeSeatsInRow]
    /\ flight_times \in [FlightIds -> {t \in [departure_time : Times, arrival_time : Times] :
                                          t.departure_time < t.arrival_time}]
    /\ routes = {}
    /\ airplanes = {}
    /\ airplane_types = {}
    /\ positions = PositionIds
    /\ crew_members = CrewRows

NextFilter == FlightViewSet_list_filtered

SpecFilter == InitFilter /\ [][NextFilter]_vars

\* ----------------------------------------------------------- properties
SameSeat(a, b) == a.flight = b.flight /\ a.row = b.row /\ a.seat = b.seat
SeatInRange(s) ==
    /\ 1 <= s.row /\ s.row <= airplane_type.rows
    /\ 1 <= s.seat /\ s.seat <= airplane_type.seats_in_row
SeatTaken(s) == \E t \in tickets : SameSeat(t, s)
HasDuplicate(l) == \E i, j \in 1..Len(l) : i # j /\ l[i] = l[j]
UniqueConflictDetails ==
    {"ValidationError: unique_flight_row_seat", "IntegrityError: unique_flight_row_seat"}
OrderOps == {"list", "retrieve", "update", "destroy"}

\* a step in which is_valid() turned a create request down with 400
RejectedStep ==
    /\ resp'.op = "create" /\ resp'.status = 400
    /\ \/ resp' # resp
       \/ \E p \in Procs : pc[p] \notin InFlight /\ pc[p] # "400" /\ pc'[p] = "400"

\* C1: in every reachable state of concurrent order creations, order deletions
\* and flight deletions, no two persisted Tickets have the same (flight, row, seat)
C1_NoDoubleBooking ==
    \A t1, t2 \in tickets : SameSeat(t1, t2) => t1 = t2

\* a seat is held and a booking of the held seat has been turned down
C1_Witness ==
    /\ tickets # {}
    /\ resp.op = "create" /\ resp.status = 400
    /\ \E i \in 1..Len(resp.body) : resp.body[i] = "non_field_errors"

\* C2: of two concurrent booking transactions that both ask for the same free
\* seat, never both succeed, and once both have ended exactly one has succeeded
\* (201) and the other has been rejected (400 or 500)
C2_ExactlyOneWins ==
    /\ ~(\A p \in RaceProcs : pc[p] = "201")
    /\ (\A p \in RaceProcs : pc[p] \in Terminal) =>
          \E p \in RaceProcs :
              /\ pc[p] = "201"
              /\ \A q \in RaceProcs \ {p} : pc[q] \in {"400", "500"}

\* both passed validation while the seat was free; one committed and the other
\* then failed at its INSERT
C2_Witness ==
    /\ \E p \in RaceProcs : pc[p] = "201"
    /\ \E q \in RaceProcs : pc[q] = "500"
    /\ resp.detail = "IntegrityError: unique_flight_row_seat"

\* C3: an order-create request that has an invalid spec (out of range, or the
\* seat already taken) at any position is never accepted, and a request turned
\* down by validation is answered 400 and leaves Orders and Tickets, committed
\* or not, as they were
C3_InvalidSpecPersistsNothing ==
    [][/\ \A p \in Procs :
             (pc[p] \notin InFlight /\ pc'[p] = "atomic") =>
                 \A i \in 1..Len(req'[p]) : SeatInRange(req'[p][i]) /\ ~SeatTaken(req'[p][i])
       /\ RejectedStep =>
             /\ \E p \in Procs : pc[p] \notin InFlight /\ pc' = [pc EXCEPT ![p] = "400"]
             /\ orders' = orders /\ tickets' = tickets
             /\ txOrder' = txOrder /\ txTickets' = txTickets
             /\ nextOrderId' = nextOrderId]_vars

\* a two-spec request whose first spec is fine and whose second is not was
\* answered 400
C3_Witness ==
    /\ resp.op = "create" /\ resp.status = 400
    /\ Len(resp.body) >= 2
    /\ resp.body[1] = OK
    /\ resp.body[Len(resp.body)] \in {"row", "seat", "non_field_errors"}

\* C4: when a booking transaction fails after it has inserted its Order and
\* some Tickets, none of these rows becomes visible: the committed Orders and
\* Tickets are unchanged by the failing step and the transaction holds no row
C4_FailedTransactionLeavesNothing ==
    [][\A p \in Procs :
          (pc[p] \in InFlight /\ pc'[p] = "500") =>
              /\ orders' = orders /\ tickets' = tickets
              /\ txOrder'[p] = 0 /\ txTickets'[p] = {}
              /\ ~\E o \in orders' : o.id = txOrder[p]
              /\ ~\E t \in tickets' : t.order = txOrder[p]]_vars

\* the second ticket failed at its INSERT, after the Order and the first
\* Ticket had been inserted: another transaction committed the seat meanwhile
C4_Witness ==
    /\ resp.op = "create" /\ resp.status = 500 /\ resp.at = 2
    /\ resp.detail = "IntegrityError: unique_flight_row_seat"

\* C5: a request that names the same (flight, row, seat) twice, both in range
\* and free, never succeeds: its transaction ends in an error answer, not in
\* 201, and changes no committed Order or Ticket
C5_DuplicateInOrderRejected ==
    [][\A p \in Procs :
          (pc[p] \in InFlight /\ HasDuplicate(req[p]) /\ pc'[p] \notin InFlight) =>
              /\ pc'[p] \in Terminal \ {"201"}
              /\ resp'.op = "create" /\ resp'.status # 201
              /\ orders' = orders /\ tickets' = tickets]_vars

\* a request with the same seat twice has passed validation and inserted the
\* first of the two tickets
C5_Witness ==
    \E p \in Procs :
        /\ pc[p] = "clean" /\ idx[p] = 2
        /\ req[p][1] = req[p][2]
        /\ \E t \in txTickets[p] : SameSeat(t, req[p][2])

\* C6: a uniqueness conflict during booking is reported as a validation-style
\* error (400), never as a server error (500)
C6_ConflictIsValidationError ==
    (/\ resp.op = "create"
     /\ \/ resp.detail \in UniqueConflictDetails
        \/ \E i \in 1..Len(resp.body) : resp.body[i] = "non_field_errors")
    => resp.status = 400

\* C7: a ticket spec is accepted by validation exactly when 1 <= row <= rows and
\* 1 <= seat <= seats_in_row, bounds included, and a rejection is keyed by a
\* field that is out of range
C7_RangeValidation ==
    resp.op = "validate" =>
        LET s == req[1][1]
            rowOk == 1 <= s.row /\ s.row <= airplane_type.rows
            seatOk == 1 <= s.seat /\ s.seat <= airplane_type.seats_in_row
        IN  /\ (resp.status = 200) <=> (rowOk /\ seatOk)
            /\ resp.status = 200 => resp.body = <<OK>>
            /\ resp.status # 200 => resp.status = 400 /\ resp.body[1] \in {"row", "seat"}
            /\ resp.body[1] = "row" => ~rowOk
            /\ resp.body[1] = "seat" => ~seatOk

\* the last row and the last seat of a type with several rows and seats were
\* accepted
C7_Witness ==
    /\ resp.op = "validate" /\ resp.status = 200
    /\ airplane_type.rows > 1 /\ airplane_type.seats_in_row > 1
    /\ req[1][1].row = airplane_type.rows
    /\ req[1][1].seat = airplane_type.seats_in_row

\* C8: an empty ticket list is answered 400 and never accepted, and an order
\* creation that commits commits an Order with at least one Ticket
C8_EmptyListRejected ==
    /\ [](/\ \A p \in Procs : pc[p] \in InFlight => Len(req[p]) >= 1
          /\ resp.detail = "empty" => resp.status = 400)
    /\ [][/\ (RejectedStep /\ resp'.detail = "empty") =>
                  orders' = orders /\ tickets' = tickets /\ txOrder' = txOrder
          /\ \A p \in Procs :
                (pc[p] = "commit" /\ pc'[p] = "201") =>
                    \E t \in tickets' : t.order = txOrder[p]]_vars

\* an empty ticket list was answered 400
C8_Witness ==
    resp.op = "create" /\ resp.detail = "empty" /\ resp.status = 400

\* C9: a successful order creation with N specs adds exactly one Order, owned by
\* the requesting actor, and exactly N Tickets, one per spec and all of the new
\* Order; the Orders and Tickets persisted before are unchanged
C9_SuccessfulCreate ==
    [][\A p \in Procs :
          (pc[p] = "commit" /\ pc'[p] = "201") =>
              LET newO == orders' \ orders
                  newT == tickets' \ tickets
                  n == Len(req[p])
              IN  /\ orders \subseteq orders' /\ tickets \subseteq tickets'
                  /\ Cardinality(newO) = 1
                  /\ \A o \in newO : o.user = actor[p] /\ resp'.data = {o.id}
                  /\ Cardinality(newT) = n
                  /\ \A t \in newT : \A o \in newO : t.order = o.id
                  /\ \A i \in 1..n : \E t \in newT : t.id[2] = i /\ SameSeat(t, req[p][i])
                  /\ resp'.status = 201]_vars

\* an order of two tickets was created for the second user
C9_Witness ==
    /\ resp.op = "create" /\ resp.status = 201 /\ resp.at = 2
    /\ \E o \in orders :
          /\ o.id \in resp.data /\ o.user = 2
          /\ Cardinality({t \in tickets : t.order = o.id}) = 2

OthersUnchanged(u) ==
    \A o \in orders :
        o.user # u =>
            /\ o \in orders'
            /\ {t \in tickets : t.order = o.id} = {t \in tickets' : t.order = o.id}

\* C10: an order operation (list, retrieve, update, destroy, create) of an
\* actor returns only Orders of that actor and changes no Order or Ticket of
\* another actor
C10_OwnOrdersOnly ==
    /\ [](resp.op \in OrderOps =>
            \A id \in resp.data : \A o \in orders : o.id = id => o.user = resp.user)
    /\ [][/\ \A u \in Users :
                (/\ resp'.op \in OrderOps /\ resp'.user = u
                 /\ (resp' # resp \/ orders' # orders \/ tickets' # tickets))
                => OthersUnchanged(u)
          /\ \A p \in Procs :
                (pc[p] = "commit" /\ pc'[p] = "201") => OthersUnchanged(actor[p])]_vars

\* an actor asked for, tried to update or to delete another actor's order and
\* was answered 404
C10_Witness ==
    /\ resp.op \in {"retrieve", "update", "destroy"} /\ resp.status = 404
    /\ \E o \in orders :
          /\ o.id = resp.at /\ o.user # resp.user
          /\ \E t \in tickets : t.order = o.id
\* seats of flight f that are sold: its committed Tickets
SoldTickets(f) == {t \in tickets : t.flight = f}

\* C11: every flight of a flight list carries tickets_available = rows *
\* seats_in_row of its airplane type minus the number of persisted Tickets of
\* that flight, as of the read
C11_TicketsAvailable ==
    [][FlightViewSet_list =>
          \A r \in resp'.data :
              r.tickets_available =
                  {rows(r.id) * seats_in_row(r.id) - Cardinality(SoldTickets(r.id))}]_vars

\* C12: whatever bookings are attempted, concurrently and beyond capacity, the
\* persisted Tickets of a flight never outnumber rows * seats_in_row
C12_CapacityNeverExceeded ==
    \A f \in flights : Cardinality(SoldTickets(f)) <= rows(f) * seats_in_row(f)

\* a flight is sold out and a booking of one of its taken seats was refused
C12_Witness ==
    /\ \E f \in flights : Cardinality(SoldTickets(f)) = rows(f) * seats_in_row(f)
    /\ resp.op = "create" /\ resp.status = 400
    /\ \E i \in 1..Len(resp.body) : resp.body[i] = "non_field_errors"


\* C13: no persisted Route has source = destination; a create or an update
\* that would make them equal, with any distance or none, is refused and
\* leaves the routes as they were
C13_NoSelfRoute ==
    /\ [](\A r \in routes : r.source # r.destination)
    /\ [][LET body == req'[1][1]
          IN  /\ ( /\ resp'.op = "route-create"
                   /\ {"source", "destination"} \subseteq DOMAIN body
                   /\ body.source = body.destination )
                      => (routes' = routes /\ resp'.status \notin {200, 201})
              /\ \A r \in routes :
                   ( /\ resp'.op = "route-update" /\ resp'.at = r.id
                     /\ Effective(r, body, "source") = Effective(r, body, "destination") )
                      => (routes' = routes /\ resp'.status \notin {200, 201})]_vars

\* a route from an airport to itself, sent without a distance, was refused
\* while a route is stored
C13_Witness ==
    /\ routes # {}
    /\ resp.op = "route-create" /\ resp.status = 400 /\ resp.detail = "destination"
    /\ DOMAIN req[1][1] = {"source", "destination"}
    /\ req[1][1].source = req[1][1].destination


\* C14: no persisted Flight has departure_time >= arrival_time; a create or
\* an update that would leave it so, equality included, is refused and leaves
\* the flights as they were
C14_DepartureBeforeArrival ==
    /\ [](\A f \in flights : flight_times[f].departure_time < flight_times[f].arrival_time)
    /\ [][LET body == req'[1][1]
          IN  /\ ( /\ resp'.op = "flight-create"
                   /\ {"departure_time", "arrival_time"} \subseteq DOMAIN body
                   /\ body.departure_time >= body.arrival_time )
                      => ( /\ flights' = flights /\ flight_times' = flight_times
                           /\ resp'.status \notin {200, 201} )
              /\ \A f \in flights :
                   ( /\ resp'.op = "flight-update" /\ resp'.at = f
                     /\ Effective(flight_times[f], body, "departure_time")
                            >= Effective(flight_times[f], body, "arrival_time") )
                      => ( /\ flights' = flights /\ flight_times' = flight_times
                           /\ resp'.status \notin {200, 201} )]_vars

\* a flight that would arrive at the time it departs was refused
C14_Witness ==
    /\ resp.op = "flight-create" /\ resp.status = 400 /\ resp.detail = "arrival_time"
    /\ req[1][1].departure_time = req[1][1].arrival_time

\* C15: a partial update of a Flight that gives only one of the two times is
\* checked against the stored other time; when it violates departure_time <
\* arrival_time the answer is a validation error keyed by field, not a server
\* error, and the flight stays as it was
C15_PartialUpdateValidated ==
    [][LET body == req'[1][1]
           partial == req'[1][2]
       IN  \A f \in flights :
             ( /\ resp'.op = "flight-update" /\ resp'.at = f /\ partial
               /\ Cardinality(DOMAIN body) = 1
               /\ Effective(flight_times[f], body, "departure_time")
                      >= Effective(flight_times[f], body, "arrival_time") )
                => ( /\ resp'.status = 400 /\ resp'.detail = "arrival_time"
                     /\ flight_times' = flight_times )]_vars


\* C16: after any creates, full and partial updates, every persisted
\* Airplane has operation_start_date >= manufacture_date,
\* last_maintenance_date >= manufacture_date and operation_start_date <=
\* last_maintenance_date, each whenever its two dates are both set
C16_AirplaneDatesOrdered ==
    \A a \in airplanes :
        /\ (a.operation_start_date # None /\ a.manufacture_date # None)
              => a.operation_start_date >= a.manufacture_date
        /\ (a.last_maintenance_date # None /\ a.manufacture_date # None)
              => a.last_maintenance_date >= a.manufacture_date
        /\ (a.operation_start_date # None /\ a.last_maintenance_date # None)
              => a.operation_start_date <= a.last_maintenance_date

\* an update that gave one date only, in conflict with a stored date, was
\* stopped by Airplane.save
C16_Witness ==
    /\ resp.op = "airplane-update" /\ resp.status = 500
    /\ Cardinality(DOMAIN req[1][1]) = 1
    /\ \E a \in airplanes : a.id = resp.at /\ a.manufacture_date # None
                               /\ a.operation_start_date # None
                               /\ a.last_maintenance_date # None


\* C17: a create or update of an AirplaneType with rows = 0 or seats_in_row
\* = 0 is refused like any non-positive value, so every AirplaneType written
\* through the API has rows > 0, seats_in_row > 0 and capacity > 0
C17_PositiveDimensions ==
    \A t \in airplane_types : t.rows > 0 /\ t.seats_in_row > 0 /\ capacity(t) > 0


\* the request answered last in the access specification
Dispatched(views, action, user) ==
    /\ resp.op = "dispatch"
    /\ req[1][1] \in views /\ req[1][2] = action /\ req[1][3] = user

NonStaff == [is_authenticated |-> TRUE, is_staff |-> FALSE]
OpenReadViews == {"flights", "routes", "airports", "airplanes"}
ReferenceViews == {"positions", "crew-members", "airplane-types"}

\* C18: for flights, routes, airports and airplanes a list is answered 200
\* to anyone, a create 401 to an unauthenticated actor, 403 to an
\* authenticated one who is not staff, 201 to staff; a request is permitted
\* exactly when the actor is authenticated staff or the method is safe
C18_ReadOpenWriteStaff ==
    \A user \in Actors :
        /\ Dispatched(OpenReadViews, "list", user) => resp.status = 200
        /\ Dispatched(OpenReadViews, "create", user) =>
              resp.status = IF ~user.is_authenticated THEN 401
                            ELSE IF ~user.is_staff THEN 403 ELSE 201
        /\ \A action \in Actions :
              Dispatched(OpenReadViews, action, user) =>
                  (resp.status \notin {401, 403}
                     <=> ((user.is_authenticated /\ user.is_staff)
                            \/ method(action) \in SAFE_METHODS))

\* an authenticated actor who is not staff was refused the creation of a flight
C18_Witness == Dispatched({"flights"}, "create", NonStaff) /\ resp.status = 403

\* C19: for positions, crew members and airplane types a list is answered
\* 401 to an unauthenticated actor, 403 to an authenticated one who is not
\* staff, 200 to staff
C19_ReferenceDataAdminOnly ==
    \A user \in Actors :
        Dispatched(ReferenceViews, "list", user) =>
            resp.status = IF ~user.is_authenticated THEN 401
                          ELSE IF ~user.is_staff THEN 403 ELSE 200

C26_DeleteCascades ==
    [][/\ (resp' # resp /\ resp'.op = "destroy" /\ resp'.status = 204) =>
            /\ orders' = {o \in orders : o.id # resp'.at}
            /\ tickets' = {t \in tickets : t.order # resp'.at}
            /\ \A t \in tickets \ tickets' :
                    /\ t.flight \in flights'
                    /\ unique_flight_row_seat(tickets', t)
                    /\ validate_ticket(t.row, t.seat, t.flight) = OK
            /\ UNCHANGED <<flights, airplane_type, catalog>>
       /\ (resp' # resp /\ resp'.op = "position-destroy" /\ resp'.status = 204) =>
            /\ positions' = positions \ {resp'.at}
            /\ {c.id : c \in crew_members'} = {c.id : c \in crew_members}
            /\ Cardinality(crew_members') = Cardinality(crew_members)
            /\ \A c \in crew_members : \E d \in crew_members' :
                    /\ d.id = c.id
                    /\ d.position = IF c.position = resp'.at THEN None ELSE c.position
            /\ UNCHANGED <<flights, orders, tickets, airplane_type, flight_times, routes,
                           airplanes, airplane_types>>
      ]_vars

\* the only order placed so far was just deleted, which removed its tickets,
\* and a position with crew members was deleted before
C26_Witness ==
    /\ resp.op = "destroy" /\ resp.status = 204
    /\ tickets = {} /\ orders = {}
    /\ nextOrderId = 2
    /\ \E c \in crew_members : c.position = None
    /\ Cardinality(crew_members) = NumCrew

\* C27: in every reachable state, also after the rows or seats_in_row of an
\* AirplaneType with booked flights were lowered, every persisted Ticket has
\* 1 <= row <= rows and 1 <= seat <= seats_in_row of the current airplane
\* type of its flight, and no flight has more Tickets than its capacity
C27_TicketsFitCurrentType ==
    \A f \in flights :
        /\ \A t \in SoldTickets(f) : validate_ticket(t.row, t.seat, f) = OK
        /\ Cardinality(SoldTickets(f)) <= rows(f) * seats_in_row(f)

TicketsOf(rowset, id) == {t \in rowset : t.order = id}

\* C28: a placed Order keeps its user and its Tickets: a PUT or PATCH of an
\* order, with or without tickets in the body, changes no Order and no
\* Ticket; an order leaves the table only by its own deletion, and the
\* Tickets of an order that stays change only when a flight is deleted, which
\* removes exactly the tickets of that flight
C28_OrderImmutable ==
    [][/\ (resp' # resp /\ resp'.op = "update") => (orders' = orders /\ tickets' = tickets)
       /\ \A o \in orders :
            IF o \in orders'
            THEN \/ TicketsOf(tickets', o.id) = TicketsOf(tickets, o.id)
                 \/ /\ resp'.op = "flight-destroy" /\ resp'.status = 204
                    /\ TicketsOf(tickets', o.id) =
                           {t \in TicketsOf(tickets, o.id) : t.flight # resp'.at}
            ELSE /\ resp'.op = "destroy" /\ resp'.status = 204 /\ resp'.at = o.id
                 /\ resp'.user = o.user
                 /\ ~\E n \in orders' : n.id = o.id
      ]_vars

\* the owner of an order that holds a ticket sent an update with a valid
\* tickets list of other seats: it was not carried out
C28_Witness ==
    /\ resp.op = "update" /\ resp.status = 500
    /\ \E o \in orders : o.id = resp.at /\ o.user = resp.user /\ TicketsOf(tickets, o.id) # {}

\* C29: in every reachable state, also after a Flight was deleted and its
\* Tickets with it, every persisted Order has at least one Ticket
C29_OrderHasTicket == \A o \in orders : TicketsOf(tickets, o.id) # {}

\* C30: two concurrent booking transactions whose seats are all valid, free
\* beforehand and pairwise different are never rejected and never wait for
\* each other, whatever the interleaving, and each of them, once under way,
\* ends with 201 and its Order and all its Tickets persisted
C30_DisjointBookingsSucceed ==
    /\ [](\A p \in RaceProcs :
            /\ pc[p] \notin {"400", "500"}
            /\ \A q \in RaceProcs : ~WaitsFor(p, q))
    /\ \A p \in RaceProcs : (pc[p] \in InFlight) ~> (pc[p] = "201")
    /\ [][\A p \in RaceProcs : (pc[p] = "commit" /\ pc'[p] = "201") =>
            /\ \E o \in orders' : o.id = txOrder[p] /\ o.user = actor[p]
            /\ \A i \in 1..Len(req[p]) : \E t \in tickets' :
                    t.order = txOrder[p] /\ SameSeat(t, req[p][i])]_vars

\* both transactions ended with 201 and two tickets of one flight, for
\* different seats, are persisted under different orders
C30_Witness ==
    /\ \A p \in RaceProcs : pc[p] = "201"
    /\ \E t1, t2 \in tickets : t1.flight = t2.flight /\ t1.order # t2.order

\* the actors the access policy refuses every write
NotStaff == {user \in Actors : ~(user.is_authenticated /\ user.is_staff)}

\* C21: a write (create, update, delete) sent by an actor to whom the access
\* policy denies it leaves every persisted row as it was and is answered with
\* a permission error (401 or 403), whether or not its body would pass
\* validation
C21_DeniedBeforeValidation ==
    [][\A user \in NotStaff, r \in GateRequests :
            APIView_dispatch(r, user) =>
                /\ UNCHANGED <<flights, orders, tickets, airplane_type, catalog>>
                /\ resp'.status \in {401, 403}
                /\ resp'.detail = "denied"]_vars

\* a user who is not staff sent a flight whose arrival is not after its
\* departure, while routes and airplane types exist: the answer is 403, not
\* the validation error
C21_Witness ==
    /\ resp.op = "dispatch" /\ resp.status = 403
    /\ req[1] # <<>> /\ req[1][1].view = "flights" /\ req[1][1].action = "create"
    /\ validate_flight(req[1][1].body.departure_time, req[1][1].body.arrival_time) # OK
    /\ routes # {} /\ airplane_types # {}

\* a filtered flight list was answered; its query parameters
Queried == resp.op = "flight-query"
SentParams == req[1][1]
Without(q, k) == [x \in (DOMAIN q) \ {k} |-> q[x]]
AllKeys == {ParamKeys[i] : i \in DOMAIN ParamKeys}
WellFormed(q) == \A k \in AllKeys : ~raises(q, k)
\* the flights of the answer, and how often flight f is in it
Listed == {r.id : r \in resp.data}
TimesListed(f) == IF f \in DOMAIN resp.body THEN resp.body[f] ELSE 0

\* C22: a malformed value of a flight list parameter makes that parameter
\* alone be ignored: the request succeeds and its result is the result of the
\* same request without the parameter
C22_MalformedIgnored ==
    Queried =>
        \A k \in AllKeys :
            raises(SentParams, k) =>
                /\ resp.status = 200
                /\ LET queryset == get_queryset(Without(SentParams, k))
                   IN  /\ queryset.response = 0
                       /\ Listed = DOMAIN queryset.result

\* the time window and the id filters of the query, stated on the flight
InWindow(q, f) ==
    /\ given(q, "departure-time-from") =>
            datetime_fromisoformat(q["departure-time-from"]) <= flight_times[f].departure_time
    /\ given(q, "departure-time-to") =>
            flight_times[f].departure_time <= datetime_fromisoformat(q["departure-time-to"])
    /\ given(q, "arrival-time-from") =>
            datetime_fromisoformat(q["arrival-time-from"]) <= flight_times[f].arrival_time
    /\ given(q, "arrival-time-to") =>
            flight_times[f].arrival_time <= datetime_fromisoformat(q["arrival-time-to"])
IdsMatch(q, f) ==
    /\ given(q, "route") => int(q["route"]) = route_id(f)
    /\ given(q, "airplane-types") =>
            \E i \in 1..Len(q["airplane-types"]) :
                int(<<q["airplane-types"][i]>>) = airplane_type_id(airplane_id(f))
    /\ given(q, "airplanes") =>
            \E i \in 1..Len(q["airplanes"]) : int(<<q["airplanes"][i]>>) = airplane_id(f)

\* C23: with well-formed parameters a flight is listed exactly when its
\* departure_time lies in [departure-time-from, departure-time-to] and its
\* arrival_time in [arrival-time-from, arrival-time-to], bounds included, and
\* it passes every other filter given (the intersection of the filters)
C23_TimeWindowInclusive ==
    (Queried /\ WellFormed(SentParams)) =>
        /\ resp.status = 200
        /\ Listed = {f \in flights : InWindow(SentParams, f) /\ IdsMatch(SentParams, f)}

\* a window [a, b] on the departure was asked for: a flight that departs at a
\* is listed and another flight, outside the window, is not
C23_Witness ==
    /\ Queried /\ WellFormed(SentParams)
    /\ given(SentParams, "departure-time-from") /\ given(SentParams, "departure-time-to")
    /\ \E f \in Listed : flight_times[f].departure_time =
                            datetime_fromisoformat(SentParams["departure-time-from"])
    /\ \E f \in flights : f \notin Listed

\* the current time of the read
Now == MaxTime - 1

\* C24: a flight list without filter parameters holds only flights whose
\* departure_time is later than the current time
C24_DefaultFutureOnly ==
    (Queried /\ DOMAIN SentParams = {}) =>
        \A f \in Listed : flight_times[f].departure_time > Now

====
